---- MODULE Spec2Model ----
(***************************************************************************)
(* Model of the SYKR ATS job scraper: the checkpoint/resume protocol of    *)
(* run_scraper (backend/ats_scraper.py) and the url-hash deduplication of  *)
(* upsert_job (backend/db.py).                                             *)
(*                                                                         *)
(* One action is one step of run_scraper between two points at which the   *)
(* process can be terminated.  The checkpoint file, the jobs table and the *)
(* scrape_runs table survive a termination; the locals of run_scraper are  *)
(* overwritten by the next invocation.                                     *)
(***************************************************************************)
EXTENDS Integers, Sequences, FiniteSets, TLC

\* ------------------------------------------------------------------------
\* Bounds of the model
\* ------------------------------------------------------------------------

\* companies returned by get_verified_companies for the current selection
NumTargets == 2

\* companies completed by the interrupted invocation whose checkpoint may be
\* on disk when the model starts (they are outside the current selection)
PriorCount == 8

\* invocations of main() in one behaviour
MaxInvocations == 2

\* the clock read by datetime.now() takes the values 0..MaxClock
MaxClock == 1

\* store calls that fail in one behaviour
MaxStoreFaults == 1

\* the longest run of "/" ending a path
MaxSlashes == 2

\* SCRAPE_CONCURRENCY as the environment sets it
Concurrency == 4

\* companies of the fetch stage whose endpoints are on one host
SameHost == 4

\* ------------------------------------------------------------------------
\* Program constants
\* ------------------------------------------------------------------------

\* "if len(completed_ids) % 10 == 0"
CheckpointEvery == 10

\* TCPConnector(limit_per_host=3)
PerHostLimit == 3

\* _retry(fn, retries=3, delay=1.0)
Retries == 3

BaseDelay == 1

\* _MAX_REQUESTS_BEFORE_RESET
MaxRequestsBeforeReset == 5000

\* _client is None
NoClient == 0

\* run_id is None
NoRunId == 0

\* company_id of a result that has not been read yet
NoCompany == 0

NoError == "None"

\* the keys of PARSERS (one registered ATS is enough: the registry is only
\* tested for membership)
PARSERS == {"greenhouse", "lever"}

TargetIds == 1..NumTargets

PriorIds == {100 + k : k \in 1..PriorCount}

\* ------------------------------------------------------------------------
\* URLs and the identity key
\* ------------------------------------------------------------------------

\* A URL string is a sequence of tokens: the delimiters ":", "/", "?", "#",
\* ".", " " and words of letters, digits and "=".  The empty string is <<>>.
EmptyUrl == <<>>

Words == {"https", "HTTPS", "www", "WWW", "acme", "Acme", "io", "jobs", "Jobs",
          "1", "2", "utm=x", "top"}

\* words that start with a letter and hold only letters and digits
AlphaWords == Words \ {"1", "2", "utm=x"}

\* urllib.parse.scheme_chars, on tokens: letters, digits, "+", "-", "."
SchemeChars == (Words \ {"utm=x"}) \cup {"."}

\* urllib.parse.uses_netloc, as far as the words reach
UsesNetloc == {<<"https">>}

\* str.lower() on one token
Lower(s) ==
    CASE s = "HTTPS" -> "https"
      [] s = "WWW"   -> "www"
      [] s = "Acme"  -> "acme"
      [] s = "Jobs"  -> "jobs"
      [] OTHER       -> s

\* str.lower() on a string
LowerHost(host) == [i \in 1..Len(host) |-> Lower(host[i])]

\* str.find() for any of the tokens in set: the first index, 0 if none
Find(s, set) ==
    IF \E i \in 1..Len(s) : s[i] \in set
    THEN CHOOSE i \in 1..Len(s) : s[i] \in set /\ \A k \in 1..(i - 1) : s[k] \notin set
    ELSE 0

\* s[:i-1] and s[i+1:] around the token at index i
Before(s, i) == SubSeq(s, 1, i - 1)
After(s, i) == SubSeq(s, i + 1, Len(s))

\* str.rstrip(t)
RECURSIVE rstrip(_, _)
rstrip(s, t) ==
    IF s # <<>> /\ s[Len(s)] = t THEN rstrip(SubSeq(s, 1, Len(s) - 1), t) ELSE s

\* str.lstrip(t)
RECURSIVE lstrip(_, _)
lstrip(s, t) ==
    IF s # <<>> /\ Head(s) = t THEN lstrip(Tail(s), t) ELSE s

\* str.strip() of blanks
strip(s) == lstrip(rstrip(s, " "), " ")

\* urlparse(): the scheme is split off at the first ":" when everything
\* before it is a scheme character and the first character a letter; a
\* netloc follows "//" up to the next "/", "?" or "#"; then the fragment is
\* cut at the first "#" and the query at the first "?".
urlparse(url) ==
    LET Result(scheme, netloc, rest3, frag, qmark) ==
            [scheme |-> scheme, netloc |-> netloc,
             path |-> IF qmark = 0 THEN rest3 ELSE Before(rest3, qmark),
             query |-> IF qmark = 0 THEN <<>> ELSE After(rest3, qmark),
             fragment |-> frag]
        SplitQuery(scheme, netloc, rest3, frag) ==
            Result(scheme, netloc, rest3, frag, Find(rest3, {"?"}))
        CutFragment(scheme, netloc, rest2, hash) ==
            SplitQuery(scheme, netloc,
                       IF hash = 0 THEN rest2 ELSE Before(rest2, hash),
                       IF hash = 0 THEN <<>> ELSE After(rest2, hash))
        SplitFragment(scheme, netloc, rest2) ==
            CutFragment(scheme, netloc, rest2, Find(rest2, {"#"}))
        CutNetloc(scheme, after2, delim) ==
            SplitFragment(scheme,
                          IF delim = 0 THEN after2 ELSE Before(after2, delim),
                          IF delim = 0 THEN <<>> ELSE SubSeq(after2, delim, Len(after2)))
        SplitNetloc(scheme, rest1) ==
            IF Len(rest1) >= 2 /\ rest1[1] = "/" /\ rest1[2] = "/"
            THEN CutNetloc(scheme, SubSeq(rest1, 3, Len(rest1)),
                           Find(SubSeq(rest1, 3, Len(rest1)), {"/", "?", "#"}))
            ELSE SplitFragment(scheme, <<>>, rest1)
        SplitScheme(colon) ==
            IF /\ colon > 1
               /\ url[1] \in AlphaWords
               /\ \A k \in 1..(colon - 1) : url[k] \in SchemeChars
            THEN SplitNetloc(LowerHost(Before(url, colon)), After(url, colon))
            ELSE SplitNetloc(<<>>, url)
    IN  SplitScheme(Find(url, {":"}))

\* ParseResult.hostname: the netloc up to a port, in lower case
hostname(parsed) ==
    LET colon == Find(parsed.netloc, {":"}) IN
    LowerHost(IF colon = 0 THEN parsed.netloc ELSE Before(parsed.netloc, colon))

\* urlunparse((scheme, netloc, path, "", "", ""))
urlunparse(scheme, netloc, path) ==
    LET slashed == IF path # <<>> /\ Head(path) # "/" THEN <<"/">> \o path ELSE path
        doubled == Len(path) >= 2 /\ path[1] = "/" /\ path[2] = "/"
        url     == IF netloc # <<>> \/ (scheme # <<>> /\ scheme \in UsesNetloc /\ ~doubled)
                   THEN <<"/", "/">> \o netloc \o slashed
                   ELSE path
    IN  IF scheme # <<>> THEN scheme \o <<":">> \o url ELSE url

\* Mutant: the query string survives normalisation.
normalize_url_keep_query(url) ==
    LET NoWww(host) ==
            IF Len(host) >= 2 /\ host[1] = "www" /\ host[2] = "."
            THEN SubSeq(host, 3, Len(host)) ELSE host
        Normalized(parsed) ==
            urlunparse(LowerHost(IF parsed.scheme = <<>> THEN <<"https">>
                                 ELSE parsed.scheme),
                       NoWww(hostname(parsed)),
                       rstrip(parsed.path, "/"))
            \o (IF parsed.query # <<>> THEN <<"?">> \o parsed.query ELSE <<>>)
    IN  Normalized(urlparse(strip(url)))

normalize_url(url) ==
    LET \* host.startswith("www."): host[4:]
        NoWww(host) ==
            IF Len(host) >= 2 /\ host[1] = "www" /\ host[2] = "."
            THEN SubSeq(host, 3, Len(host)) ELSE host
        \* scheme lowered, https when absent; path.rstrip("/"); query and
        \* fragment dropped
        Normalized(parsed) ==
            urlunparse(LowerHost(IF parsed.scheme = <<>> THEN <<"https">>
                                 ELSE parsed.scheme),
                       NoWww(hostname(parsed)),
                       rstrip(parsed.path, "/"))
    IN  Normalized(urlparse(strip(url)))

\* SHA-256 of the normalised URL: equal inputs give equal digests and distinct
\* inputs distinct digests.
hash_url(u) == [sha256 |-> normalize_url(u)]

\* ------------------------------------------------------------------------
\* Job boards: what an ATS endpoint can return
\* ------------------------------------------------------------------------

NoSalary == {}

Raw(title, url, smin, smax) ==
    [title |-> title, absolute_url |-> url, salary_min |-> smin, salary_max |-> smax]

UrlA  == <<"https", ":", "/", "/", "acme", ".", "io", "/", "jobs", "/", "1">>
\* the same posting with www., upper case host, trailing slash and tracking query
UrlA2 == <<"HTTPS", ":", "/", "/", "WWW", ".", "Acme", ".", "io", "/", "jobs", "/", "1",
           "/", "?", "utm=x", "#", "top">>
UrlB  == <<"https", ":", "/", "/", "acme", ".", "io", "/", "jobs", "/", "2">>

Urls == {UrlA, UrlA2, UrlB}

Keys == {hash_url(u) : u \in Urls}

\* response bodies: a board listing one posting twice, an entry without title
\* and a second posting; an empty board
BodyA == <<Raw("Engineer", UrlA, {100}, {200}), Raw("", UrlB, NoSalary, NoSalary),
           Raw("Designer", UrlB, NoSalary, NoSalary),
           Raw("Engineer II", UrlA2, NoSalary, {300})>>
BodyEmpty == <<>>

Bodies == {BodyA, BodyEmpty}

ParsedJob(raw) ==
    [url |-> raw.absolute_url, title |-> raw.title,
     salary_min |-> raw.salary_min, salary_max |-> raw.salary_max]

\* parse_jobs: entries without title or url are skipped, the rest mapped
RECURSIVE parse_jobs(_)
parse_jobs(data) ==
    IF data = <<>> THEN <<>>
    ELSE LET raw == Head(data) IN
         IF raw.title = "" \/ raw.absolute_url = EmptyUrl
         THEN parse_jobs(Tail(data))
         ELSE <<ParsedJob(raw)>> \o parse_jobs(Tail(data))

\* ------------------------------------------------------------------------
\* scrape_company: classification of one fetch
\* ------------------------------------------------------------------------

Result(company_id, jobs, error) ==
    [company_id |-> company_id, jobs |-> jobs, error |-> error]

NoResult == Result(NoCompany, <<>>, NoError)

\* f"HTTP {resp.status}"
HttpError(status) ==
    CASE status = 500 -> "HTTP 500"
      [] OTHER        -> "HTTP other"

\* What session.get() can produce: a response with a status and a body that
\* resp.json() parses or not, or an exception.
Responses ==
    [kind : {"response"}, status : {200}, json_ok : {TRUE}, body : Bodies]
    \cup [kind : {"response"}, status : {200}, json_ok : {FALSE}, body : {BodyEmpty}]
    \cup [kind : {"response"}, status : {404, 429, 500}, json_ok : {FALSE}, body : {BodyEmpty}]
    \cup [kind : {"TimeoutError", "ClientError", "Exception"}, status : {0}, json_ok : {FALSE},
          body : {BodyEmpty}]

\* The rows get_verified_companies can return for a company id: api_url may
\* be the empty string and ats may name no registered parser.
CompanyRows(id) ==
    [id : {id}, api_url : {"", "https://boards.example/api"}, ats : {"greenhouse", "taleo"}]

\* Mutant: 404 is an HTTP error like the others.
scrape_company_404_error(company, resp) ==
    IF company.api_url = "" THEN Result(company.id, <<>>, "no api_url")
    ELSE IF company.ats \notin PARSERS THEN Result(company.id, <<>>, "no parser for " \o company.ats)
    ELSE IF resp.kind = "response" THEN
        IF resp.status = 200 THEN
            IF ~resp.json_ok THEN Result(company.id, <<>>, "json decode error")
            ELSE Result(company.id, parse_jobs(resp.body), NoError)
        ELSE IF resp.status = 404 THEN Result(company.id, <<>>, HttpError(resp.status))
        ELSE IF resp.status = 429 THEN Result(company.id, <<>>, "rate limited (429)")
        ELSE Result(company.id, <<>>, HttpError(resp.status))
    ELSE IF resp.kind = "TimeoutError" THEN Result(company.id, <<>>, "timeout")
    ELSE IF resp.kind = "ClientError" THEN Result(company.id, <<>>, "connection error")
    ELSE Result(company.id, <<>>, "unexpected error")

\* Mutant: a rate-limited board counts as an empty one.
scrape_company_429_empty(company, resp) ==
    IF company.api_url = "" THEN Result(company.id, <<>>, "no api_url")
    ELSE IF company.ats \notin PARSERS THEN Result(company.id, <<>>, "no parser for " \o company.ats)
    ELSE IF resp.kind = "response" THEN
        IF resp.status = 200 THEN
            IF ~resp.json_ok THEN Result(company.id, <<>>, "json decode error")
            ELSE Result(company.id, parse_jobs(resp.body), NoError)
        ELSE IF resp.status = 404 THEN Result(company.id, <<>>, NoError)
        ELSE IF resp.status = 429 THEN Result(company.id, <<>>, NoError)
        ELSE Result(company.id, <<>>, HttpError(resp.status))
    ELSE IF resp.kind = "TimeoutError" THEN Result(company.id, <<>>, "timeout")
    ELSE IF resp.kind = "ClientError" THEN Result(company.id, <<>>, "connection error")
    ELSE Result(company.id, <<>>, "unexpected error")

\* Mutant: the status of a failed request is not kept.
scrape_company_status_dropped(company, resp) ==
    IF company.api_url = "" THEN Result(company.id, <<>>, "no api_url")
    ELSE IF company.ats \notin PARSERS THEN Result(company.id, <<>>, "no parser for " \o company.ats)
    ELSE IF resp.kind = "response" THEN
        IF resp.status = 200 THEN
            IF ~resp.json_ok THEN Result(company.id, <<>>, "json decode error")
            ELSE Result(company.id, parse_jobs(resp.body), NoError)
        ELSE IF resp.status = 404 THEN Result(company.id, <<>>, NoError)
        ELSE IF resp.status = 429 THEN Result(company.id, <<>>, "rate limited (429)")
        ELSE Result(company.id, <<>>, "HTTP error")
    ELSE IF resp.kind = "TimeoutError" THEN Result(company.id, <<>>, "timeout")
    ELSE IF resp.kind = "ClientError" THEN Result(company.id, <<>>, "connection error")
    ELSE Result(company.id, <<>>, "unexpected error")

scrape_company(company, resp) ==
    IF company.api_url = "" THEN Result(company.id, <<>>, "no api_url")
    ELSE IF company.ats \notin PARSERS THEN Result(company.id, <<>>, "no parser for " \o company.ats)
    ELSE IF resp.kind = "response" THEN
        IF resp.status = 200 THEN
            IF ~resp.json_ok THEN Result(company.id, <<>>, "json decode error")
            ELSE Result(company.id, parse_jobs(resp.body), NoError)
        ELSE IF resp.status = 404 THEN Result(company.id, <<>>, NoError)
        ELSE IF resp.status = 429 THEN Result(company.id, <<>>, "rate limited (429)")
        ELSE Result(company.id, <<>>, HttpError(resp.status))
    ELSE IF resp.kind = "TimeoutError" THEN Result(company.id, <<>>, "timeout")
    ELSE IF resp.kind = "ClientError" THEN Result(company.id, <<>>, "connection error")
    ELSE Result(company.id, <<>>, "unexpected error")

\* the result tuples asyncio.gather can hold for one company
ResultsFor(id) ==
    {scrape_company(c, resp) : c \in CompanyRows(id), resp \in Responses}

\* ------------------------------------------------------------------------
\* The checkpoint file
\* ------------------------------------------------------------------------

EmptyDict == [k \in {} |-> 0]

\* dict.get(key, default)
Get(d, key, default) == IF key \in DOMAIN d THEN d[key] ELSE default

\* CHECKPOINT_FILE: absent, holding a JSON document, or cut short by a
\* termination between open(.., "w") and the end of json.dump
NoFile  == [state |-> "absent",  data |-> EmptyDict]
Corrupt == [state |-> "corrupt", data |-> EmptyDict]

\* the dict run_scraper passes to save_checkpoint (updated_at is written and
\* never read)
CheckpointData(ids, rid, total, new, errs) ==
    [completed_ids |-> ids, run_id |-> rid, total_jobs |-> total,
     new_jobs |-> new, errors |-> errs]

load_checkpoint(file) ==
    IF file.state = "ok" THEN file.data
    ELSE EmptyDict      \* no file, or json.JSONDecodeError

save_checkpoint(data) == [state |-> "ok", data |-> data]

\* Mutant: the file is left where it is.
clear_checkpoint_keep(file) == file

\* CHECKPOINT_FILE.unlink(missing_ok=True)
clear_checkpoint(file) == NoFile

\* ------------------------------------------------------------------------
\* The jobs table
\* ------------------------------------------------------------------------

\* Outcome of the store calls of one upsert_job once _retry has given up:
\* none fails, the select raises, or the insert/update raises.
Faults == {"none", "select", "write"}

MinId(rows) == CHOOSE r \in rows : \A q \in rows : r.id <= q.id

\* Mutant: a row is inserted whether or not the url_hash is already stored.
upsert_job_always_insert(table, job, company_id, now, fault) ==
    IF fault = "select"
    THEN [jobs |-> table, is_new |-> FALSE, raised |-> TRUE]
    ELSE IF fault = "write"
    THEN [jobs |-> table, is_new |-> FALSE, raised |-> FALSE]
    ELSE [jobs |-> table \cup
                   {[id |-> Cardinality(table) + 1, url_hash |-> hash_url(job.url),
                     url |-> job.url, title |-> job.title, first_seen |-> now,
                     last_seen |-> now, is_active |-> TRUE, company_id |-> company_id,
                     salary_min |-> job.salary_min, salary_max |-> job.salary_max]},
          is_new |-> TRUE, raised |-> FALSE]

upsert_job(table, job, company_id, now, fault) ==
    LET url_h    == hash_url(job.url)
        existing == {r \in table : r.url_hash = url_h}
        is_new   == existing = {}
    IN
    IF fault = "select"
    THEN \* the select is outside every try: the exception leaves upsert_job
         [jobs |-> table, is_new |-> FALSE, raised |-> TRUE]
    ELSE IF is_new THEN
        IF fault = "write"
        THEN \* except Exception: return (None, False)
             [jobs |-> table, is_new |-> FALSE, raised |-> FALSE]
        ELSE [jobs |-> table \cup
                       {[id |-> Cardinality(table) + 1, url_hash |-> url_h,
                         url |-> job.url, title |-> job.title, first_seen |-> now,
                         last_seen |-> now, is_active |-> TRUE, company_id |-> company_id,
                         salary_min |-> job.salary_min, salary_max |-> job.salary_max]},
              is_new |-> TRUE, raised |-> FALSE]
    ELSE
        LET old == MinId(existing)      \* existing.data[0]
            new == [old EXCEPT !.last_seen = now, !.is_active = TRUE,
                               !.company_id = company_id,
                               !.salary_min = IF job.salary_min # NoSalary
                                              THEN job.salary_min ELSE @,
                               !.salary_max = IF job.salary_max # NoSalary
                                              THEN job.salary_max ELSE @]
        IN
        IF fault = "write"
        THEN [jobs |-> table, is_new |-> FALSE, raised |-> FALSE]
        ELSE [jobs |-> (table \ {old}) \cup {new}, is_new |-> FALSE, raised |-> FALSE]


\* ------------------------------------------------------------------------
\* State
\* ------------------------------------------------------------------------

VARIABLES
    ckpt,           \* CHECKPOINT_FILE on disk
    jobs,           \* rows of the jobs table
    scrape_runs,    \* rows of the scrape_runs table; the row's index is its id
    company_update, \* the companies row db.update_company wrote last
    clock,          \* datetime.now()
    faults,         \* store calls that have failed so far
    pc,             \* where run_scraper stands, or how the last invocation ended
    inv,            \* invocations of main() so far
    mode,           \* fresh and dry_run as run_scraper received them
    companies,      \* ids of the selected companies, in list order
    remaining,      \* ids of the companies left after the checkpoint filter
    idx,            \* position of the for loop in results
    completed_ids,
    run_id,
    total_jobs,
    new_jobs,
    error_count,
    cur,            \* the result tuple the loop read last
    j,              \* position of the inner loop in parsed_jobs
    swallowed,      \* history: an insert/update of a record of cur's company
                    \*   raised inside upsert_job
    loaded,         \* history: the checkpoint file as the invocation found it
    applied,        \* history: companies a non-dry invocation has completed
                    \*   since the completed-id set was last empty
    errored,        \* history: companies whose fetch failed in a non-dry
                    \*   invocation of the run the checkpoint carries
    hist,           \* history: per url_hash, the upsert_job calls made for it
    fetched,        \* history: per company, what the result this invocation's
                    \*   loop read for it was
    tasks,          \* the scrape_company coroutines handed to asyncio.gather
    sem,            \* semaphore._value
    conns,          \* per host, the connections the TCPConnector has given out
    requests,       \* history: per coroutine, its calls of session.get
    results,        \* what asyncio.gather returned
    fpc,            \* where the fetch stage stands
    client,         \* db._client
    request_count,  \* db._request_count
    rpc,            \* where _retry stands
    attempt,        \* _retry's loop variable
    errors,         \* history: the messages of the exceptions fn has raised
    slept,          \* history: the arguments of time.sleep
    used,           \* history: the client each call of fn ran on
    created,        \* history: create_client calls so far
    url,            \* the string handed to normalize_url and hash_url
    other,          \* a second string handed to hash_url
    normalized,     \* normalize_url(url)
    renormalized,   \* normalize_url(normalized)
    url_key,        \* hash_url(url)
    other_key,      \* hash_url(other)
    kpc,            \* which of these calls have been made
    call            \* the arguments and outcome of the last upsert_job called
                    \*   on its own

durable == <<jobs, scrape_runs, company_update>>
locals  == <<mode, companies, remaining, idx, completed_ids, run_id, total_jobs,
             new_jobs, error_count, cur, j, swallowed>>
history == <<loaded, applied, errored, hist, fetched>>

fetch_stage == <<tasks, sem, conns, requests, results, fpc>>
retry_state == <<client, request_count, rpc, attempt, errors, slept, used, created>>

key_state == <<url, other, normalized, renormalized, url_key, other_key, kpc>>

\* what run_scraper's loop leaves alone
side == <<fetch_stage, retry_state, key_state, call>>

\* what run_scraper's loop works on
program == <<ckpt, durable, clock, faults, pc, inv, locals, history>>

\* what the fetch stage and _retry leave alone
run == <<program, key_state, call>>

vars == <<run, side>>

Stopped == {"idle", "returned", "returned_empty", "raised", "raised_fatal", "crashed"}
Running == {"loop", "upsert", "update"}

RunRow(status, total, new, errs) ==
    [status |-> status, total_found |-> total, new_found |-> new, errors |-> errs]

\* db.update_company(company_id, {last_scraped_at, job_count, verified})
CompanyUpdate(company_id, job_count, now) ==
    [id |-> company_id, job_count |-> job_count, last_scraped_at |-> now,
     verified |-> TRUE]

NoUpdate == [id |-> NoCompany, job_count |-> 0, last_scraped_at |-> 0, verified |-> FALSE]

\* The checkpoint an earlier invocation left behind when it was interrupted:
\* it had completed the PriorCount companies of another selection, one new job
\* each, and the select of the next company's job raised (the except branch
\* counts the error and saves).  Its jobs have other url hashes than Keys.
PriorCheckpoint ==
    save_checkpoint(CheckpointData(PriorIds, 1, PriorCount + 1, PriorCount, 1))

\* what the loop has read for a company: nothing yet, or the kind of result
\* and the number of jobs in it
NotFetched == [kind |-> "none", n |-> 0]

Fetched(r) ==
    [kind |-> IF r.error = NoError THEN "ok"
              ELSE IF r.error \in {"no api_url", "no parser for taleo"} THEN "skipped"
              ELSE "failed",
     n    |-> Len(r.jobs)]

NoHist == [applied |-> FALSE, clean |-> TRUE, first |-> 0, last |-> 0, news |-> 0]

\* the company list after --ats / --company / --limit: all companies, or none
Selections == {<<>>, [i \in 1..NumTargets |-> i]}

Range(seq) == {seq[i] : i \in 1..Len(seq)}

\* ------------------------------------------------------------------------
\* The fetch stage: the coroutines of asyncio.gather
\* ------------------------------------------------------------------------

Hosts == {"boards.example", "jobs.example"}

\* the host of an api_url, as the connector keys its connections
HostOf(api_url) ==
    CASE api_url = "https://boards.example/api" -> "boards.example"
      [] api_url = "https://jobs.example/api"   -> "jobs.example"
      [] OTHER                                  -> ""

\* remaining, as the fetch stage receives it: SameHost companies on one
\* host, one on another host, one without api_url, one without parser
FetchList ==
    [i \in 1..(SameHost + 3) |->
        IF i <= SameHost
        THEN [id |-> i, api_url |-> "https://boards.example/api", ats |-> "greenhouse"]
        ELSE IF i = SameHost + 1
        THEN [id |-> i, api_url |-> "https://jobs.example/api", ats |-> "lever"]
        ELSE IF i = SameHost + 2
        THEN [id |-> i, api_url |-> "", ats |-> "greenhouse"]
        ELSE [id |-> i, api_url |-> "https://boards.example/api", ats |-> "taleo"]]

TaskIds == 1..Len(FetchList)

NewTask == [st |-> "new", result |-> NoResult]

\* what can happen to a request that has a connection
FetchResponses ==
    {r \in Responses :
        \/ r.kind = "response" /\ r.status = 200 /\ r.json_ok /\ r.body = BodyA
        \/ r.kind = "response" /\ r.status = 404
        \/ r.kind \in {"TimeoutError", "Exception"}}

\* what can happen to a request that waits for a connection
ConnectFailures == {r \in Responses : r.kind \in {"TimeoutError", "ClientError"}}

\* Mutant: there is no "except Exception".
Caught_no_catch_all(kind) == kind \in {"TimeoutError", "ClientError"}

\* except asyncio.TimeoutError / aiohttp.ClientError / Exception
Caught(kind) == kind \in {"TimeoutError", "ClientError", "Exception"}

\* how a coroutine that has called session.get ends
Ended(i, resp) ==
    IF resp.kind = "response" \/ Caught(resp.kind)
    THEN [st |-> "done", result |-> scrape_company(FetchList[i], resp)]
    ELSE [st |-> "raised", result |-> NoResult]

\* Mutant: the semaphore lets everybody in.
SemaphoreFree_always(value) == TRUE

\* asyncio.Semaphore: acquire() goes through while _value > 0
SemaphoreFree(value) == value > 0

\* TCPConnector(limit=SCRAPE_CONCURRENCY, limit_per_host=3): a connection to
\* host is given out while both limits leave room
ConnectorFree(given, host) ==
    /\ given[host] < PerHostLimit
    /\ given["boards.example"] + given["jobs.example"] < Concurrency

FetchIdle ==
    /\ tasks = <<>>
    /\ sem = Concurrency
    /\ conns = [h \in Hosts |-> 0]
    /\ requests = <<>>
    /\ results = <<>>
    /\ fpc = "idle"

\* tasks = [scrape_company(session, company, semaphore) for company in remaining]
FetchCreated ==
    /\ tasks = [i \in TaskIds |-> NewTask]
    /\ sem = Concurrency
    /\ conns = [h \in Hosts |-> 0]
    /\ requests = [i \in TaskIds |-> 0]
    /\ results = <<>>
    /\ fpc = "gather"

\* "if not api_url" / "if not parser": the coroutine returns at once
SkipTask(i) ==
    /\ fpc = "gather"
    /\ tasks[i].st = "new"
    /\ FetchList[i].api_url = "" \/ FetchList[i].ats \notin PARSERS
    /\ tasks' = [tasks EXCEPT ![i] =
                    [st |-> "done",
                     result |-> scrape_company(FetchList[i], CHOOSE r \in Responses : TRUE)]]
    /\ UNCHANGED <<sem, conns, requests, results, fpc, retry_state, run>>

\* "async with semaphore", then session.get is called and waits for a
\* connection
AcquireSemaphore(i) ==
    /\ fpc = "gather"
    /\ tasks[i].st = "new"
    /\ FetchList[i].api_url # "" /\ FetchList[i].ats \in PARSERS
    /\ SemaphoreFree(sem)
    /\ sem' = sem - 1
    /\ requests' = [requests EXCEPT ![i] = @ + 1]
    /\ tasks' = [tasks EXCEPT ![i].st = "held"]
    /\ UNCHANGED <<conns, results, fpc, retry_state, run>>

\* the connector gives the request a connection: it is in flight
Connect(i) ==
    /\ fpc = "gather"
    /\ tasks[i].st = "held"
    /\ ConnectorFree(conns, HostOf(FetchList[i].api_url))
    /\ conns' = [conns EXCEPT ![HostOf(FetchList[i].api_url)] = @ + 1]
    /\ tasks' = [tasks EXCEPT ![i].st = "inflight"]
    /\ UNCHANGED <<sem, requests, results, fpc, retry_state, run>>

\* the request fails before it has a connection; leaving the with block
\* releases the semaphore
ConnectFails(i, resp) ==
    /\ fpc = "gather"
    /\ tasks[i].st = "held"
    /\ resp \in ConnectFailures
    /\ tasks' = [tasks EXCEPT ![i] = Ended(i, resp)]
    /\ sem' = sem + 1
    /\ UNCHANGED <<conns, requests, results, fpc, retry_state, run>>

\* the request ends: response, timeout, or an exception of the parser;
\* leaving the with blocks releases the connection and the semaphore
Complete(i, resp) ==
    /\ fpc = "gather"
    /\ tasks[i].st = "inflight"
    /\ resp \in FetchResponses
    /\ tasks' = [tasks EXCEPT ![i] = Ended(i, resp)]
    /\ conns' = [conns EXCEPT ![HostOf(FetchList[i].api_url)] = @ - 1]
    /\ sem' = sem + 1
    /\ UNCHANGED <<requests, results, fpc, retry_state, run>>

\* results = await asyncio.gather(*tasks): the results in the order of the
\* coroutines once all have returned, or the first exception
Gather ==
    /\ fpc = "gather"
    /\ \/ \E i \in TaskIds : tasks[i].st = "raised"
       \/ \A i \in TaskIds : tasks[i].st = "done"
    /\ IF \E i \in TaskIds : tasks[i].st = "raised"
       THEN fpc' = "raised" /\ results' = <<>>
       ELSE fpc' = "returned" /\ results' = [i \in TaskIds |-> tasks[i].result]
    /\ UNCHANGED <<tasks, sem, conns, requests, retry_state, run>>

\* ------------------------------------------------------------------------
\* db._retry and db.get_client
\* ------------------------------------------------------------------------

\* str(e).lower(), token by token
LowerToken(t) ==
    CASE t = "RemoteProtocolError"  -> "remoteprotocolerror"
      [] t = "ConnectionTerminated" -> "connectionterminated"
      [] t = "Broken pipe"          -> "broken pipe"
      [] t = "Connection refused"   -> "connection refused"
      [] OTHER                      -> t

Signatures ==
    {"connectionterminated", "remoteprotocolerror", "connectionreset",
     "connectionrefused", "broken pipe"}

\* str(e) of the exceptions a store call raises, cut into tokens
ErrorMessages ==
    {<<"RemoteProtocolError", ": ", "ConnectionTerminated">>,
     <<"[Errno 32] ", "Broken pipe">>,
     <<"[Errno 111] ", "Connection refused">>,
     <<"duplicate key value violates unique constraint">>}

\* Mutant: every exception is taken for a connection error.
IsConnectionError_any(msg) == TRUE

\* any(k in err_str for k in (...))
IsConnectionError(msg) == \E i \in 1..Len(msg) : LowerToken(msg[i]) \in Signatures

\* Mutant: the last attempt is retried too.
ShouldRetry_once_more(msg, n) == IsConnectionError(msg) /\ n < Retries

\* "if is_connection_error and attempt < retries - 1"
ShouldRetry(msg, n) == IsConnectionError(msg) /\ n < Retries - 1

\* Mutant: an existing client is kept whatever the request count.
get_client_keep(c, n, made) ==
    IF c = NoClient
    THEN [client |-> made + 1, request_count |-> 1, created |-> made + 1]
    ELSE [client |-> c, request_count |-> n + 1, created |-> made]

\* get_client(): _client, _request_count and the number of clients created
\* so far, after the call
get_client(c, n, made) ==
    IF c = NoClient \/ n >= MaxRequestsBeforeReset
    THEN [client |-> made + 1, request_count |-> 1, created |-> made + 1]
    ELSE [client |-> c, request_count |-> n + 1, created |-> made]

RetryIdle ==
    /\ client = NoClient
    /\ request_count = 0
    /\ created = 0
    /\ rpc = "idle"
    /\ attempt = 0
    /\ errors = <<>>
    /\ slept = <<>>
    /\ used = <<>>

\* the module before a wrapped store call: no client yet, or a client that
\* has served some requests
RetryInit ==
    /\ \/ client = NoClient /\ request_count = 0 /\ created = 0
       \/ /\ client = 1
          /\ created = 1
          /\ request_count \in {1, MaxRequestsBeforeReset - 1, MaxRequestsBeforeReset}
    /\ rpc = "idle"
    /\ attempt = 0
    /\ errors = <<>>
    /\ slept = <<>>
    /\ used = <<>>

\* _retry(fn) is entered: for attempt in range(retries)
RetryEnter ==
    /\ rpc = "idle"
    /\ rpc' = "attempt"
    /\ attempt' = 0
    /\ UNCHANGED <<client, request_count, errors, slept, used, created, fetch_stage, run>>

\* fn() starts with get_client()
RetryGetClient ==
    /\ rpc = "attempt"
    /\ LET g == get_client(client, request_count, created) IN
        /\ client' = g.client
        /\ request_count' = g.request_count
        /\ created' = g.created
        /\ used' = Append(used, g.client)
    /\ rpc' = "execute"
    /\ UNCHANGED <<attempt, errors, slept, fetch_stage, run>>

\* .execute() returns
RetryReturns ==
    /\ rpc = "execute"
    /\ rpc' = "returned"
    /\ UNCHANGED <<client, request_count, attempt, errors, slept, used, created,
                   fetch_stage, run>>

\* .execute() raises: sleep, force the reset and go round again, or re-raise
RetryExcept(msg) ==
    /\ rpc = "execute"
    /\ msg \in ErrorMessages
    /\ errors' = Append(errors, msg)
    /\ IF ShouldRetry(msg, attempt)
       THEN /\ slept' = Append(slept, BaseDelay * (attempt + 1))
            /\ request_count' = MaxRequestsBeforeReset
            /\ attempt' = attempt + 1
            /\ rpc' = "attempt"
       ELSE /\ rpc' = "raised"
            /\ UNCHANGED <<slept, request_count, attempt>>
    /\ UNCHANGED <<client, used, created, fetch_stage, run>>

\* ------------------------------------------------------------------------
\* normalize_url and hash_url called on their own
\* ------------------------------------------------------------------------

Schemes == {<<>>, <<"https", ":">>, <<"HTTPS", ":">>}

Leads == {<<>>, <<"/", "/">>}

\* hosts, one of them with a repeated www. prefix
HostNames == {<<>>, <<"acme", ".", "io">>, <<"WWW", ".", "Acme", ".", "io">>,
              <<"www", ".", "www", ".", "acme", ".", "io">>}

Paths == {<<>>, <<"/", "jobs", "/", "1">>, <<"/", "Jobs", "/", "1">>}

Slashes(n) == [i \in 1..n |-> "/"]

Trackers == {<<>>, <<"?", "utm=x", "#", "top">>}

\* the strings normalize_url is called with: every combination of the parts
\* above, and two padded with blanks
UrlStrings ==
    {sc \o ld \o h \o p \o Slashes(n) \o t :
        sc \in Schemes, ld \in Leads, h \in HostNames, p \in Paths,
        n \in 0..MaxSlashes, t \in Trackers}
    \cup {<<" ">> \o UrlA \o <<" ">>, <<" ", " ">> \o UrlA2}

KeyIdle ==
    /\ url = EmptyUrl
    /\ other = EmptyUrl
    /\ normalized = EmptyUrl
    /\ renormalized = EmptyUrl
    /\ url_key = EmptyUrl
    /\ other_key = EmptyUrl
    /\ kpc = "idle"

KeyInit ==
    /\ url \in UrlStrings
    /\ other = EmptyUrl
    /\ normalized = EmptyUrl
    /\ renormalized = EmptyUrl
    /\ url_key = EmptyUrl
    /\ other_key = EmptyUrl
    /\ kpc = "input"

\* normalized = normalize_url(url)
NormalizeUrl ==
    /\ kpc = "input"
    /\ normalized' = normalize_url(url)
    /\ kpc' = "normalized"
    /\ UNCHANGED <<url, other, renormalized, url_key, other_key, program, fetch_stage,
                   retry_state, call>>

\* normalize_url applied to its own result
Renormalize ==
    /\ kpc = "normalized"
    /\ renormalized' = normalize_url(normalized)
    /\ kpc' = "renormalized"
    /\ UNCHANGED <<url, other, normalized, url_key, other_key, program, fetch_stage,
                   retry_state, call>>

\* hash_url(url) and hash_url(v) for a second string v
HashUrls(v) ==
    /\ kpc = "normalized"
    /\ other' = v
    /\ url_key' = hash_url(url)
    /\ other_key' = hash_url(v)
    /\ kpc' = "hashed"
    /\ UNCHANGED <<url, normalized, renormalized, program, fetch_stage, retry_state,
                   call>>

\* ------------------------------------------------------------------------
\* upsert_job called on its own
\* ------------------------------------------------------------------------

Call(job, company_id, now, fault, res, turn) ==
    [job |-> job, company_id |-> company_id, now |-> now, fault |-> fault,
     is_new |-> res.is_new, raised |-> res.raised, turn |-> turn]

NoCall ==
    Call(ParsedJob(Raw("", EmptyUrl, NoSalary, NoSalary)), NoCompany, 0, "none",
         [is_new |-> FALSE, raised |-> FALSE], 0)

\* the records upsert_job is called with: the postings of a board
JobRecords == Range(parse_jobs(BodyA))

\* a row of the posting UrlA written by an earlier run, which
\* mark_inactive_jobs may have set inactive since
StoredRows ==
    [id : {1}, url_hash : {hash_url(UrlA)}, url : {UrlA}, title : {"Engineer"},
     first_seen : {0}, last_seen : {0}, is_active : BOOLEAN, company_id : TargetIds,
     salary_min : {NoSalary, {100}}, salary_max : {NoSalary, {200}}]

StoredTables == {{}} \cup {{r} : r \in StoredRows}

UpsertIdle == call = NoCall

\* db.upsert_job(url, title, ..., company_id, salary_min, salary_max)
CallUpsertJob(job, company_id, fault) ==
    /\ LET res == upsert_job(jobs, job, company_id, clock, fault) IN
        /\ jobs' = res.jobs
        /\ call' = Call(job, company_id, clock, fault, res, 1 - call.turn)
    /\ UNCHANGED <<ckpt, scrape_runs, company_update, clock, faults, pc, inv, locals,
                   history, fetch_stage, retry_state, key_state>>

InitWith(invocations) ==
    /\ \E prior \in BOOLEAN :
        /\ ckpt = IF prior THEN PriorCheckpoint ELSE NoFile
        /\ scrape_runs = IF prior THEN <<RunRow("running", 0, 0, 0)>> ELSE <<>>
        /\ applied = IF prior THEN PriorIds ELSE {}
    /\ jobs = {}
    /\ company_update = NoUpdate
    /\ clock = 0
    /\ faults = 0
    /\ pc = "idle"
    /\ inv = invocations
    /\ mode = [fresh |-> FALSE, dry_run |-> FALSE]
    /\ companies = <<>>
    /\ remaining = <<>>
    /\ idx = 1
    /\ completed_ids = {}
    /\ run_id = NoRunId
    /\ total_jobs = 0
    /\ new_jobs = 0
    /\ error_count = 0
    /\ cur = NoResult
    /\ j = 0
    /\ swallowed = FALSE
    /\ loaded = NoFile
    /\ errored = {}
    /\ hist = [k \in Keys |-> NoHist]
    /\ fetched = [t \in TargetIds |-> NotFetched]

Init == InitWith(0) /\ FetchIdle /\ RetryIdle /\ KeyIdle /\ UpsertIdle

\* ------------------------------------------------------------------------
\* main() and the start of run_scraper
\* ------------------------------------------------------------------------

\* Mutant: the fresh flag is not looked at.
Prologue_fresh_ignored(file, args_resume, args_fresh) ==
    LET resume     == args_resume \/ (~args_resume /\ file.state # "absent")
        checkpoint == IF resume THEN load_checkpoint(file) ELSE EmptyDict
    IN  [resume        |-> resume,
         completed_ids |-> Get(checkpoint, "completed_ids", {}),
         run_id        |-> Get(checkpoint, "run_id", NoRunId),
         prev_total    |-> Get(checkpoint, "total_jobs", 0),
         prev_new      |-> Get(checkpoint, "new_jobs", 0),
         prev_errors   |-> Get(checkpoint, "errors", 0),
         file          |-> file]

\* Mutant: main() does not look for a checkpoint file; only --resume resumes.
Prologue_no_auto_resume(file, args_resume, args_fresh) ==
    LET checkpoint == IF args_resume /\ ~args_fresh THEN load_checkpoint(file) ELSE EmptyDict
    IN  [resume        |-> args_resume,
         completed_ids |-> IF args_fresh THEN {} ELSE Get(checkpoint, "completed_ids", {}),
         run_id        |-> IF args_fresh THEN NoRunId ELSE Get(checkpoint, "run_id", NoRunId),
         prev_total    |-> IF args_fresh THEN 0 ELSE Get(checkpoint, "total_jobs", 0),
         prev_new      |-> IF args_fresh THEN 0 ELSE Get(checkpoint, "new_jobs", 0),
         prev_errors   |-> IF args_fresh THEN 0 ELSE Get(checkpoint, "errors", 0),
         file          |-> IF args_fresh THEN clear_checkpoint(file) ELSE file]

\* main(): auto_resume and the flags handed to run_scraper; then run_scraper's
\* "Handle checkpoint" block.
Prologue(file, args_resume, args_fresh) ==
    LET auto_resume == ~args_fresh /\ ~args_resume /\ file.state # "absent"
        resume      == args_resume \/ auto_resume
        checkpoint  == IF resume /\ ~args_fresh THEN load_checkpoint(file) ELSE EmptyDict
    IN  [resume        |-> resume,
         completed_ids |-> IF args_fresh THEN {} ELSE Get(checkpoint, "completed_ids", {}),
         run_id        |-> IF args_fresh THEN NoRunId ELSE Get(checkpoint, "run_id", NoRunId),
         prev_total    |-> IF args_fresh THEN 0 ELSE Get(checkpoint, "total_jobs", 0),
         prev_new      |-> IF args_fresh THEN 0 ELSE Get(checkpoint, "new_jobs", 0),
         prev_errors   |-> IF args_fresh THEN 0 ELSE Get(checkpoint, "errors", 0),
         file          |-> IF args_fresh THEN clear_checkpoint(file) ELSE file]

\* Mutant: nothing is filtered out.
Remaining_all(sel, done) == sel

\* remaining = [c for c in companies if c["id"] not in completed_ids]
Remaining(sel, done) == SelectSeq(sel, LAMBDA c : c \notin done)

\* What every invocation does before it reads the company list.
Enter(P, args_fresh, dry) ==
    /\ inv' = inv + 1
    /\ mode' = [fresh |-> args_fresh, dry_run |-> dry]
    /\ loaded' = ckpt
    /\ ckpt' = P.file
    /\ completed_ids' = P.completed_ids
    /\ total_jobs' = P.prev_total
    /\ new_jobs' = P.prev_new
    /\ error_count' = P.prev_errors
    /\ idx' = 1
    /\ cur' = NoResult
    /\ j' = 0
    /\ swallowed' = FALSE
    /\ applied' = IF P.completed_ids = {} THEN {} ELSE applied
    /\ errored' = IF P.run_id = NoRunId THEN {} ELSE errored
    /\ fetched' = [t \in TargetIds |-> NotFetched]
    /\ UNCHANGED <<jobs, company_update, clock, hist>>

\* Mutant: a dry run starts a run as well.
StartsRun_dry_too(dry, rid) == rid = NoRunId

\* if not dry_run and not run_id: run_id = db.start_scrape_run(...)
StartsRun(dry, rid) == ~dry /\ rid = NoRunId

\* run_scraper from its first line to the end of asyncio.gather.  The result
\* of each fetch is an input that nothing reads before the for loop reaches
\* it: it is drawn there.
Start(args_resume, args_fresh, dry, sel) ==
    /\ pc \in Stopped
    /\ inv < MaxInvocations
    /\ LET P         == Prologue(ckpt, args_resume, args_fresh)
           start_run == StartsRun(dry, P.run_id)
       IN
        /\ Enter(P, args_fresh, dry)
        /\ companies' = sel
        /\ IF sel = <<>>
           THEN \* "No companies to scrape": return
                /\ pc' = "returned_empty"
                /\ remaining' = <<>>
                /\ run_id' = P.run_id
                /\ UNCHANGED scrape_runs
           ELSE /\ pc' = "loop"
                /\ remaining' = Remaining(sel, P.completed_ids)
                /\ run_id' = IF start_run THEN Len(scrape_runs) + 1 ELSE P.run_id
                /\ scrape_runs' = IF start_run
                                  THEN Append(scrape_runs, RunRow("running", 0, 0, 0))
                                  ELSE scrape_runs
    /\ UNCHANGED faults
    /\ UNCHANGED side

\* get_verified_companies or start_scrape_run raises: the exception leaves
\* run_scraper after the checkpoint block.
StartRaises(args_resume, args_fresh, dry) ==
    /\ pc \in Stopped
    /\ inv < MaxInvocations
    /\ faults < MaxStoreFaults
    /\ faults' = faults + 1
    /\ LET P == Prologue(ckpt, args_resume, args_fresh) IN
        /\ Enter(P, args_fresh, dry)
        /\ run_id' = P.run_id
    /\ pc' = "raised"
    /\ companies' = <<>>
    /\ remaining' = <<>>
    /\ UNCHANGED scrape_runs
    /\ UNCHANGED side

\* ------------------------------------------------------------------------
\* The for loop over results
\* ------------------------------------------------------------------------

AtResult == pc = "loop" /\ idx <= Len(remaining)

\* Mutant: a failed fetch is counted, and the company is not recorded as
\* completed.
ErrorCompleted_not_added(ids, company_id) == ids

\* Mutant: the set is replaced by the target that failed.
ErrorCompleted_reset(ids, company_id) == {company_id}

\* "if error:" ... completed_ids.add(company_id)
ErrorCompleted(ids, company_id) == ids \cup {company_id}

\* Mutant: the errors that are not logged are not counted either.
ErrorCounted_skips_free(count, error) ==
    IF error \in {"no api_url", "no parser for taleo"} THEN count ELSE count + 1

\* "if error: error_count += 1"
ErrorCounted(count, error) == count + 1

\* if error: error_count += 1; completed_ids.add(company_id); continue
ApplyError(r) ==
    /\ AtResult
    /\ r \in ResultsFor(remaining[idx])
    /\ r.error # NoError
    /\ error_count' = ErrorCounted(error_count, r.error)
    /\ completed_ids' = ErrorCompleted(completed_ids, r.company_id)
    /\ idx' = idx + 1
    /\ cur' = r
    /\ swallowed' = FALSE
    /\ applied' = IF mode.dry_run THEN applied ELSE applied \cup {r.company_id}
    /\ errored' = IF mode.dry_run THEN errored ELSE errored \cup {r.company_id}
    /\ fetched' = [fetched EXCEPT ![r.company_id] = Fetched(r)]
    /\ UNCHANGED <<ckpt, durable, clock, faults, pc, inv, mode, companies, remaining,
                   run_id, total_jobs, new_jobs, j, loaded, hist>>
    /\ UNCHANGED side

\* if not parsed_jobs: completed_ids.add(company_id); continue
ApplyEmpty(r) ==
    /\ AtResult
    /\ r \in ResultsFor(remaining[idx])
    /\ r.error = NoError
    /\ r.jobs = <<>>
    /\ completed_ids' = completed_ids \cup {r.company_id}
    /\ idx' = idx + 1
    /\ cur' = r
    /\ swallowed' = FALSE
    /\ applied' = IF mode.dry_run THEN applied ELSE applied \cup {r.company_id}
    /\ fetched' = [fetched EXCEPT ![r.company_id] = Fetched(r)]
    /\ UNCHANGED <<ckpt, durable, clock, faults, pc, inv, mode, companies, remaining,
                   run_id, total_jobs, new_jobs, error_count, j, loaded, errored, hist>>
    /\ UNCHANGED side

\* if dry_run: new_jobs += len(parsed_jobs); completed_ids.add(company_id); continue
ApplyDryRun(r) ==
    /\ AtResult
    /\ r \in ResultsFor(remaining[idx])
    /\ r.error = NoError
    /\ r.jobs # <<>>
    /\ mode.dry_run
    /\ total_jobs' = total_jobs + Len(r.jobs)
    /\ new_jobs' = new_jobs + Len(r.jobs)
    /\ completed_ids' = completed_ids \cup {r.company_id}
    /\ idx' = idx + 1
    /\ cur' = r
    /\ swallowed' = FALSE
    /\ fetched' = [fetched EXCEPT ![r.company_id] = Fetched(r)]
    /\ UNCHANGED <<ckpt, durable, clock, faults, pc, inv, mode, companies, remaining,
                   run_id, error_count, j, loaded, applied, errored, hist>>
    /\ UNCHANGED side

\* total_jobs += len(parsed_jobs), then the try block is entered
BeginUpsert(r) ==
    /\ AtResult
    /\ r \in ResultsFor(remaining[idx])
    /\ r.error = NoError
    /\ r.jobs # <<>>
    /\ ~mode.dry_run
    /\ total_jobs' = total_jobs + Len(r.jobs)
    /\ cur' = r
    /\ j' = 1
    /\ swallowed' = FALSE
    /\ pc' = "upsert"
    /\ fetched' = [fetched EXCEPT ![r.company_id] = Fetched(r)]
    /\ UNCHANGED <<ckpt, durable, clock, faults, inv, mode, companies, remaining, idx,
                   completed_ids, run_id, new_jobs, error_count, loaded, applied, errored,
                   hist>>
    /\ UNCHANGED side

HistApply(h, key, now, is_new, fault) ==
    [h EXCEPT ![key] =
        [applied |-> TRUE,
         clean   |-> @.clean /\ fault = "none",
         first   |-> IF @.applied THEN @.first ELSE now,
         last    |-> now,
         news    |-> @.news + (IF is_new THEN 1 ELSE 0)]]

\* one db.upsert_job call of the inner loop that returns; "if is_new: new_jobs += 1"
UpsertJob(fault) ==
    /\ pc = "upsert"
    /\ fault \in {"none", "write"}
    /\ IF fault = "none" THEN faults' = faults
       ELSE faults < MaxStoreFaults /\ faults' = faults + 1
    /\ LET job == cur.jobs[j]
           res == upsert_job(jobs, job, cur.company_id, clock, fault)
       IN
        /\ jobs' = res.jobs
        /\ new_jobs' = IF res.is_new THEN new_jobs + 1 ELSE new_jobs
        /\ hist' = HistApply(hist, hash_url(job.url), clock, res.is_new, fault)
    /\ swallowed' = (swallowed \/ fault = "write")
    /\ IF j < Len(cur.jobs)
       THEN j' = j + 1 /\ pc' = "upsert"
       ELSE j' = j /\ pc' = "update"
    /\ UNCHANGED <<ckpt, scrape_runs, company_update, clock, inv, mode, companies,
                   remaining, idx, completed_ids, run_id, total_jobs, error_count, cur,
                   loaded, applied, errored, fetched>>
    /\ UNCHANGED side

\* Mutant: the company whose write failed is put into the saved set.
FatalCheckpoint_with_failing(ids, company_id, rid, total, new, errs) ==
    CheckpointData(ids \cup {company_id}, rid, total, new, errs)

\* the dict the except branch saves
FatalCheckpoint(ids, company_id, rid, total, new, errs) ==
    CheckpointData(ids, rid, total, new, errs)

\* db.upsert_job raises; except Exception: error_count += 1; save_checkpoint; raise
UpsertRaises ==
    /\ pc = "upsert"
    /\ faults < MaxStoreFaults
    /\ faults' = faults + 1
    /\ upsert_job(jobs, cur.jobs[j], cur.company_id, clock, "select").raised
    /\ error_count' = error_count + 1
    /\ ckpt' = save_checkpoint(FatalCheckpoint(completed_ids, cur.company_id, run_id,
                                               total_jobs, new_jobs, error_count + 1))
    /\ hist' = HistApply(hist, hash_url(cur.jobs[j].url), clock, FALSE, "select")
    /\ pc' = "raised_fatal"
    /\ UNCHANGED <<durable, clock, inv, mode, companies, remaining, idx, completed_ids,
                   run_id, total_jobs, new_jobs, cur, j, swallowed, loaded, applied,
                   errored, fetched>>
    /\ UNCHANGED side

\* Mutant: the checkpoint is due on every company.
CheckpointDue_always(ids) == TRUE

\* if len(completed_ids) % 10 == 0
CheckpointDue(ids) == Cardinality(ids) % CheckpointEvery = 0

\* db.update_company (its own exceptions are logged and dropped), then
\* completed_ids.add(company_id) and the checkpoint every 10 companies
UpdateCompany(updated) ==
    /\ pc = "update"
    /\ IF updated
       THEN /\ company_update' = CompanyUpdate(cur.company_id, Len(cur.jobs), clock)
            /\ faults' = faults
       ELSE /\ company_update' = company_update
            /\ faults < MaxStoreFaults
            /\ faults' = faults + 1
    /\ completed_ids' = completed_ids \cup {cur.company_id}
    /\ ckpt' = IF CheckpointDue(completed_ids')
               THEN save_checkpoint(CheckpointData(completed_ids', run_id, total_jobs,
                                                   new_jobs, error_count))
               ELSE ckpt
    /\ applied' = applied \cup {cur.company_id}
    /\ idx' = idx + 1
    /\ pc' = "loop"
    /\ UNCHANGED <<jobs, scrape_runs, clock, inv, mode, companies, remaining, run_id,
                   total_jobs, new_jobs, error_count, cur, j, swallowed, loaded, errored,
                   hist, fetched>>
    /\ UNCHANGED side

\* ------------------------------------------------------------------------
\* The end of run_scraper
\* ------------------------------------------------------------------------

\* summary, db.finish_scrape_run (its exceptions are logged and dropped),
\* clear_checkpoint
Finish(finished) ==
    /\ pc = "loop"
    /\ idx > Len(remaining)
    /\ IF run_id # NoRunId /\ ~mode.dry_run
       THEN IF finished
            THEN /\ scrape_runs' = [scrape_runs EXCEPT ![run_id] =
                        RunRow("completed", total_jobs, new_jobs, error_count)]
                 /\ faults' = faults
            ELSE /\ scrape_runs' = scrape_runs
                 /\ faults < MaxStoreFaults
                 /\ faults' = faults + 1
       ELSE finished /\ UNCHANGED <<scrape_runs, faults>>
    /\ ckpt' = clear_checkpoint(ckpt)
    /\ pc' = "returned"
    /\ UNCHANGED <<jobs, company_update, clock, inv, locals, history>>
    /\ UNCHANGED side

\* db.get_job_count raises in the summary: the exception leaves run_scraper
FinishRaises ==
    /\ pc = "loop"
    /\ idx > Len(remaining)
    /\ ~mode.dry_run
    /\ faults < MaxStoreFaults
    /\ faults' = faults + 1
    /\ pc' = "raised"
    /\ UNCHANGED <<ckpt, durable, clock, inv, locals, history>>
    /\ UNCHANGED side

\* ------------------------------------------------------------------------
\* Process termination and time
\* ------------------------------------------------------------------------

\* the memory of the process is gone
LocalsLost ==
    /\ mode' = [fresh |-> FALSE, dry_run |-> FALSE]
    /\ companies' = <<>>
    /\ remaining' = <<>>
    /\ idx' = 1
    /\ completed_ids' = {}
    /\ run_id' = NoRunId
    /\ total_jobs' = 0
    /\ new_jobs' = 0
    /\ error_count' = 0
    /\ cur' = NoResult
    /\ j' = 0
    /\ swallowed' = FALSE
    /\ fetched' = [t \in TargetIds |-> NotFetched]

\* the process is killed between two steps
Crash ==
    /\ pc \in Running
    /\ pc' = "crashed"
    /\ LocalsLost
    /\ UNCHANGED <<ckpt, durable, clock, faults, inv, loaded, applied, errored, hist>>
    /\ UNCHANGED side

\* the process is killed inside save_checkpoint, after open(.., "w") has
\* truncated the file and before json.dump has written it out
CrashInSave ==
    /\ \/ /\ pc = "update"
          /\ CheckpointDue(completed_ids \cup {cur.company_id})
          /\ applied' = applied \cup {cur.company_id}
       \/ /\ pc = "upsert"
          /\ UNCHANGED applied
    /\ ckpt' = Corrupt
    /\ pc' = "crashed"
    /\ LocalsLost
    /\ UNCHANGED <<durable, clock, faults, inv, loaded, errored, hist>>
    /\ UNCHANGED side

Tick ==
    /\ clock < MaxClock
    /\ clock' = clock + 1
    /\ UNCHANGED <<ckpt, durable, faults, pc, inv, locals, history>>
    /\ UNCHANGED side

Next ==
    \/ \E args_resume \in BOOLEAN, args_fresh \in BOOLEAN, dry \in BOOLEAN :
          \/ \E sel \in Selections : Start(args_resume, args_fresh, dry, sel)
          \/ StartRaises(args_resume, args_fresh, dry)
    \/ \E r \in UNION {ResultsFor(t) : t \in TargetIds} :
          \/ ApplyError(r)
          \/ ApplyEmpty(r)
          \/ ApplyDryRun(r)
          \/ BeginUpsert(r)
    \/ \E fault \in Faults : UpsertJob(fault)
    \/ UpsertRaises
    \/ \E updated \in BOOLEAN : UpdateCompany(updated)
    \/ \E finished \in BOOLEAN : Finish(finished)
    \/ FinishRaises
    \/ Crash
    \/ CrashInSave

Spec == Init /\ [][Next]_vars

\* One invocation of main() during which the clock advances.
InitTimed == InitWith(MaxInvocations - 1) /\ FetchIdle /\ RetryIdle /\ KeyIdle /\ UpsertIdle

NextTimed == Next \/ Tick

SpecTimed == InitTimed /\ [][NextTimed]_vars

\* The fetch stage of one invocation.
InitFetch == InitWith(0) /\ FetchCreated /\ RetryIdle /\ KeyIdle /\ UpsertIdle

NextFetch ==
    \/ \E i \in TaskIds :
          \/ SkipTask(i)
          \/ AcquireSemaphore(i)
          \/ Connect(i)
          \/ \E resp \in ConnectFailures : ConnectFails(i, resp)
          \/ \E resp \in FetchResponses : Complete(i, resp)
    \/ Gather

SpecFetch == InitFetch /\ [][NextFetch]_vars

\* One store call wrapped by _retry.
InitRetry == InitWith(0) /\ FetchIdle /\ RetryInit /\ KeyIdle /\ UpsertIdle

NextRetry ==
    \/ RetryEnter
    \/ RetryGetClient
    \/ RetryReturns
    \/ \E msg \in ErrorMessages : RetryExcept(msg)

SpecRetry == InitRetry /\ [][NextRetry]_vars

\* normalize_url and hash_url on one string, or hash_url on two.
InitKey == InitWith(0) /\ ckpt = NoFile /\ FetchIdle /\ RetryIdle /\ KeyInit /\ UpsertIdle

NextKey ==
    \/ NormalizeUrl
    \/ Renormalize
    \/ \E v \in UrlStrings : HashUrls(v)

SpecKey == InitKey /\ [][NextKey]_vars

\* upsert_job called again and again on a table an earlier run has left.
InitUpsert ==
    /\ \E table \in StoredTables :
        /\ ckpt = NoFile
        /\ scrape_runs = <<>>
        /\ applied = {}
        /\ jobs = table
    /\ company_update = NoUpdate
    /\ clock = 0
    /\ faults = 0
    /\ pc = "idle"
    /\ inv = 0
    /\ mode = [fresh |-> FALSE, dry_run |-> FALSE]
    /\ companies = <<>>
    /\ remaining = <<>>
    /\ idx = 1
    /\ completed_ids = {}
    /\ run_id = NoRunId
    /\ total_jobs = 0
    /\ new_jobs = 0
    /\ error_count = 0
    /\ cur = NoResult
    /\ j = 0
    /\ swallowed = FALSE
    /\ loaded = NoFile
    /\ errored = {}
    /\ hist = [k \in Keys |-> NoHist]
    /\ fetched = [t \in TargetIds |-> NotFetched]
    /\ FetchIdle
    /\ RetryIdle
    /\ KeyIdle
    /\ UpsertIdle

NextUpsert ==
    \/ \E job \in JobRecords, company_id \in TargetIds, fault \in Faults :
          CallUpsertJob(job, company_id, fault)
    \/ Tick

SpecUpsert == InitUpsert /\ [][NextUpsert]_vars

\* ------------------------------------------------------------------------
\* Properties
\* ------------------------------------------------------------------------

LoadedDict == load_checkpoint(loaded)
LoadedIds  == Get(LoadedDict, "completed_ids", {})
DiskIds    == Get(load_checkpoint(ckpt), "completed_ids", {})

\* the invocation has just passed asyncio.gather: no result is applied yet
JustStarted == pc = "loop" /\ idx = 1

\* the companies the for loop has gone through in this invocation
Processed == {remaining[k] : k \in 1..(idx - 1)}

\* C1: an invocation that is not fresh and finds a checkpoint with
\* completed-id set S fetches and applies exactly the selected companies
\* whose id is not in S, in list order, and its totals start from the
\* checkpoint's totals.
C1_ResumeSkipsCompleted ==
    (pc \in Running \cup {"returned", "raised", "raised_fatal"}
        /\ ~mode.fresh /\ loaded.state = "ok" /\ companies # <<>>) =>
        /\ Range(remaining) = Range(companies) \ loaded.data.completed_ids
        /\ \A a, b \in 1..Len(remaining) :
              a < b => \E x, y \in 1..Len(companies) :
                          x < y /\ companies[x] = remaining[a] /\ companies[y] = remaining[b]
        /\ (JustStarted =>
              /\ total_jobs = loaded.data.total_jobs
              /\ new_jobs = loaded.data.new_jobs
              /\ error_count = loaded.data.errors)
        /\ (pc = "returned" => Processed = Range(companies) \ loaded.data.completed_ids)

C1_Witness ==
    /\ pc = "returned"
    /\ ~mode.fresh
    /\ loaded.state = "ok"
    /\ Len(remaining) > 0
    /\ Len(remaining) < Len(companies)

\* what save_checkpoint would write from the invocation's present locals
Snapshot ==
    save_checkpoint(CheckpointData(completed_ids, run_id, total_jobs, new_jobs, error_count))

\* C2: whenever the loop of a real run has just processed a company (whether
\* its fetch succeeded, came back empty or failed) and the completed set has
\* reached a multiple of 10, the checkpoint on disk is the present snapshot,
\* so that disk never lags the completed set by 10 or more companies.
C2_CheckpointEveryTenth ==
    (pc = "loop" /\ ~mode.dry_run /\ idx > 1 /\ CheckpointDue(completed_ids)) =>
        /\ ckpt = Snapshot
        /\ Cardinality(completed_ids \ DiskIds) < CheckpointEvery

\* C3: the checkpoint on disk never lists a company that no invocation has
\* processed; an invocation that is not fresh fetches again every selected
\* company the checkpoint it loaded does not list (so companies processed
\* after the last flush are processed again); and a real run that returns
\* has left no selected company unprocessed.
C3_AtLeastOnce ==
    /\ DiskIds \subseteq applied
    /\ (JustStarted /\ ~mode.fresh) =>
          \A t \in Range(companies) : t \notin LoadedIds => t \in Range(remaining)
    /\ (pc = "returned" /\ ~mode.dry_run) => Range(companies) \subseteq applied

\* a company processed before a crash, lost from the checkpoint, is in the
\* fetch list of the resumed invocation
C3_Witness ==
    /\ JustStarted
    /\ ~mode.fresh
    /\ loaded.state = "ok"
    /\ \E t \in Range(remaining) : t \in applied /\ t \notin DiskIds

C5_WriteFailureIsFatal ==
    swallowed => pc = "raised_fatal"

RowsOf(key) == {r \in jobs : r.url_hash = key}

RECURSIVE NewsOver(_)
NewsOver(keys) ==
    IF keys = {} THEN 0
    ELSE LET k == CHOOSE x \in keys : TRUE
         IN  hist[k].news + NewsOver(keys \ {k})

\* the new-job counter the invocation started from
SeedNew == IF ~mode.fresh /\ loaded.state = "ok" THEN loaded.data.new_jobs ELSE 0

\* C7: after any number of applications of records with one canonical key,
\* none of which failed, the jobs table holds exactly one row with that key,
\* its first_seen is the time of the first application and its last_seen the
\* time of the latest, and exactly one application (the first, since this
\* holds after every application) returned is_new and was counted as new.
C7_OneRecordPerKey ==
    /\ \A k \in Keys :
          (hist[k].applied /\ hist[k].clean) =>
              /\ Cardinality(RowsOf(k)) = 1
              /\ \A r \in RowsOf(k) :
                    /\ r.first_seen = hist[k].first
                    /\ r.last_seen = hist[k].last
                    /\ r.is_active
              /\ hist[k].news = 1
    /\ (pc \in Running \cup {"returned", "raised_fatal"} /\ ~mode.dry_run) =>
          new_jobs = SeedNew + NewsOver(Keys)

\* two spellings of one url applied at different times
C7_Witness ==
    \E k \in Keys :
        /\ hist[k].applied
        /\ hist[k].clean
        /\ hist[k].first < hist[k].last
        /\ \E r \in RowsOf(k) : r.first_seen < r.last_seen
        /\ new_jobs = SeedNew + 1

C9_ErroredNeverRefetched ==
    (JustStarted /\ ~mode.fresh) => errored \cap Range(remaining) = {}

\* C9 (amended): a company whose fetch failed is added to the completed set;
\* an invocation that is not fresh fetches it again exactly when the
\* checkpoint it loaded does not list it, and a fresh invocation fetches
\* every selected company.
C9_Amended ==
    /\ (pc \in Running /\ cur.error # NoError) => cur.company_id \in completed_ids
    /\ (JustStarted /\ ~mode.fresh) =>
          \A t \in errored \cap Range(companies) :
              t \in Range(remaining) <=> t \notin LoadedIds
    /\ (JustStarted /\ mode.fresh) => Range(remaining) = Range(companies)

\* a failed company listed by the loaded checkpoint is left out of the fetch
C9_Witness ==
    /\ JustStarted
    /\ ~mode.fresh
    /\ \E t \in errored \cap Range(companies) : t \in LoadedIds /\ t \notin Range(remaining)

\* the error counter the invocation started from
SeedErrors == IF ~mode.fresh /\ loaded.state = "ok" THEN loaded.data.errors ELSE 0

SkipErrors == {"no api_url", "no parser for taleo"}

\* the loop has just gone through a company skipped for want of an endpoint
\* or of a parser
SkipStep ==
    /\ pc = "loop" /\ pc' = "loop"
    /\ idx' = idx + 1
    /\ cur'.error \in SkipErrors

\* C10 (as stated): a company with no endpoint or with no registered parser
\* adds nothing to the error counter.
C10_SkipsNotCounted ==
    [][SkipStep => error_count' = error_count]_vars

\* C10 (amended): a company with no endpoint or with no registered parser
\* is recorded as completed without any store write and without adding to
\* the job totals, and adds exactly 1 to the error counter.
C10_Amended ==
    [][SkipStep =>
        /\ error_count' = error_count + 1
        /\ total_jobs' = total_jobs /\ new_jobs' = new_jobs
        /\ cur'.company_id \in completed_ids'
        /\ UNCHANGED <<ckpt, durable>>]_vars

C10_Witness ==
    /\ pc = "loop"
    /\ idx > 1
    /\ cur.error = "no parser for taleo"
    /\ cur.company_id \in completed_ids
    /\ error_count = SeedErrors + 1

\* the responses that scrape_company turns into a result for a company that
\* has an endpoint and a parser
Fetchable(c) == c.api_url # "" /\ c.ats \in PARSERS

\* a board that is gone, or a body the parser gets no job from
ZeroYield(resp) ==
    /\ resp.kind = "response"
    /\ \/ resp.status = 404
       \/ resp.status = 200 /\ resp.json_ok /\ parse_jobs(resp.body) = <<>>

\* the loop has just gone through a result with no job and no error
EmptyStep ==
    /\ pc = "loop" /\ pc' = "loop"
    /\ idx' = idx + 1
    /\ cur'.error = NoError
    /\ cur'.jobs = <<>>

ZeroYieldClassified ==
    \A id \in TargetIds : \A c \in CompanyRows(id) : \A resp \in Responses :
        (Fetchable(c) /\ ZeroYield(resp)) =>
            scrape_company(c, resp) = Result(id, <<>>, NoError)

\* C11: HTTP 404 and HTTP 200 with a body that yields no job both come back
\* from scrape_company as an empty list without error, and the loop, on such
\* a result, leaves the error and new-job counters and every table as they
\* are and adds the company to completed_ids.
C11_ZeroRecordsCompleted ==
    [][/\ ZeroYieldClassified
       /\ EmptyStep =>
            /\ error_count' = error_count
            /\ new_jobs' = new_jobs
            /\ total_jobs' = total_jobs
            /\ UNCHANGED durable
            /\ cur'.company_id = remaining[idx]
            /\ completed_ids' = completed_ids \cup {remaining[idx]}]_vars

\* an empty result has been gone through in a real run that had no seed
C11_Witness ==
    /\ pc = "loop"
    /\ idx = 2
    /\ ~mode.dry_run
    /\ loaded.state = "absent"
    /\ cur.error = NoError
    /\ cur.jobs = <<>>
    /\ cur.company_id \in completed_ids
    /\ error_count = 0
    /\ new_jobs = 0
    /\ jobs = {}

\* the failures of a request that scrape_company records
RecordedFailure(resp) ==
    \/ resp.kind = "response" /\ resp.status = 200 /\ ~resp.json_ok
    \/ resp.kind = "response" /\ resp.status \notin {200, 404}
    \/ resp.kind \in {"TimeoutError", "ClientError"}

RecordedErrors ==
    {scrape_company(c, resp).error :
        c \in {x \in CompanyRows(1) : Fetchable(x)},
        resp \in {x \in Responses : RecordedFailure(x)}}

\* the loop has just gone through a result carrying a recorded fetch error
ErrorStep ==
    /\ pc = "loop" /\ pc' = "loop"
    /\ idx' = idx + 1
    /\ cur'.error \in RecordedErrors

RecordedFailureClassified ==
    /\ \A id \in TargetIds : \A c \in CompanyRows(id) : \A resp \in Responses :
          (Fetchable(c) /\ RecordedFailure(resp)) =>
              /\ scrape_company(c, resp).error # NoError
              /\ scrape_company(c, resp).jobs = <<>>
              /\ scrape_company(c, resp).company_id = id
    /\ NoError \notin RecordedErrors

\* C12: rate limiting, a decode failure, any other HTTP status, a timeout
\* and a connection failure all come back from scrape_company as an error
\* with no job; the loop, on such a result, adds exactly 1 to error_count
\* and nothing to total_jobs and new_jobs, adds the company to
\* completed_ids, writes nothing, and goes on to the next result.
C12_RecordedErrorCounted ==
    [][/\ RecordedFailureClassified
       /\ ErrorStep =>
            /\ error_count' = error_count + 1
            /\ total_jobs' = total_jobs
            /\ new_jobs' = new_jobs
            /\ completed_ids' = completed_ids \cup {remaining[idx]}
            /\ cur'.company_id = remaining[idx]
            /\ UNCHANGED <<ckpt, durable, remaining, companies, run_id>>]_vars

\* after a company whose fetch failed, the next company's jobs are written
C12_Witness ==
    /\ pc = "loop"
    /\ idx = 3
    /\ ~mode.dry_run
    /\ loaded.state = "absent"
    /\ error_count = 1
    /\ remaining[1] \in errored
    /\ cur.company_id = remaining[2]
    /\ cur.error = NoError
    /\ new_jobs > 0
    /\ Range(remaining) \subseteq completed_ids

RECURSIVE SeenOver(_)
SeenOver(ids) ==
    IF ids = {} THEN 0
    ELSE LET t == CHOOSE x \in ids : TRUE
         IN  (IF fetched[t].kind = "ok" THEN fetched[t].n ELSE 0) + SeenOver(ids \ {t})

\* the invocation started from zero totals and an empty completed set
StartedClean == loaded.state = "absent" \/ mode.fresh

Holders == {i \in TaskIds : tasks[i].st \in {"held", "inflight"}}

\* the coroutines whose request has a connection
InFlight == {i \in TaskIds : tasks[i].st = "inflight"}

InFlightTo(h) == {i \in InFlight : HostOf(FetchList[i].api_url) = h}

\* C14: at every moment of the fetch stage at most Concurrency requests are
\* in flight, at most PerHostLimit of them to one host, and at most
\* Concurrency coroutines are inside the semaphore, which every way out of
\* the with block gives back.
C14_BoundedConcurrency ==
    fpc # "idle" =>
        /\ Cardinality(InFlight) <= Concurrency
        /\ \A h \in Hosts : Cardinality(InFlightTo(h)) <= PerHostLimit
        /\ Cardinality(Holders) <= Concurrency
        /\ sem = Concurrency - Cardinality(Holders)
        /\ \A h \in Hosts : conns[h] = Cardinality(InFlightTo(h))

\* both limits are reached while a coroutine still waits for the semaphore
C14_Witness ==
    /\ fpc = "gather"
    /\ Cardinality(InFlight) = Concurrency
    /\ Cardinality(InFlightTo("boards.example")) = PerHostLimit
    /\ sem = 0
    /\ \E i \in TaskIds : tasks[i].st = "new" /\ Fetchable(FetchList[i])

\* C15: no coroutine ends with an exception and gather does not raise; no
\* coroutine calls session.get more than once; while gather is awaited some
\* coroutine can always go on; and what gather returns holds, for every
\* company of remaining and in the order of remaining, the one tuple its
\* coroutine returned, whatever happened to the other requests.
C15_OneResultPerTarget ==
    fpc # "idle" =>
        /\ fpc # "raised"
        /\ \A i \in TaskIds : tasks[i].st # "raised"
        /\ \A i \in TaskIds : requests[i] <= 1
        /\ \A i \in TaskIds : tasks[i].st = "done" => tasks[i].result.company_id = FetchList[i].id
        /\ fpc = "gather" => ENABLED NextFetch
        /\ fpc = "gather" => results = <<>>
        /\ fpc = "returned" =>
              /\ Len(results) = Len(FetchList)
              /\ \A i \in TaskIds :
                    /\ results[i].company_id = FetchList[i].id
                    /\ results[i] = tasks[i].result
                    /\ results[i].error = NoError \/ results[i].jobs = <<>>

\* gather has returned although the parser raised for one company and
\* another request timed out, next to a company whose jobs were parsed
C15_Witness ==
    /\ fpc = "returned"
    /\ results[1].error = "unexpected error"
    /\ results[2].error = "timeout"
    /\ results[3].error = NoError /\ Len(results[3].jobs) = 3
    /\ results[4].error = "connection error"
    /\ \A i \in TaskIds : requests[i] = (IF Fetchable(FetchList[i]) THEN 1 ELSE 0)

\* the policy table, row by row, for a company row and a response
Policy(c, resp) ==
    IF c.api_url = "" THEN <<"error", "no api_url">>
    ELSE IF c.ats \notin PARSERS THEN <<"error", "no parser for taleo">>
    ELSE CASE resp.kind = "response" /\ resp.status = 200 /\ resp.json_ok -> <<"records", NoError>>
           [] resp.kind = "response" /\ resp.status = 200 /\ ~resp.json_ok -> <<"error", "json decode error">>
           [] resp.kind = "response" /\ resp.status = 404 -> <<"empty", NoError>>
           [] resp.kind = "response" /\ resp.status = 429 -> <<"error", "rate limited (429)">>
           [] resp.kind = "response" /\ resp.status = 500 -> <<"error", "HTTP 500">>
           [] resp.kind = "TimeoutError" -> <<"error", "timeout">>
           [] resp.kind = "ClientError" -> <<"error", "connection error">>
           [] OTHER -> <<"error", "unexpected error">>

PolicyFollowed ==
    \A id \in TargetIds : \A c \in CompanyRows(id) : \A resp \in Responses :
        LET r == scrape_company(c, resp)
            p == Policy(c, resp)
        IN  /\ r.company_id = id
            /\ r.error = p[2]
            /\ p[1] = "records" => r.jobs = parse_jobs(resp.body)
            /\ p[1] # "records" => r.jobs = <<>>

\* C16: scrape_company classifies every company row and response as the
\* policy table says, and a coroutine for a company without api_url or
\* without parser returns its error without having called session.get and
\* without ever being inside the semaphore.
C16_ClassificationPolicy ==
    /\ PolicyFollowed
    /\ Len(parse_jobs(BodyA)) = 3 /\ parse_jobs(BodyEmpty) = <<>>
    /\ fpc # "idle" =>
          /\ \A i \in TaskIds : ~Fetchable(FetchList[i]) =>
                /\ requests[i] = 0
                /\ i \notin Holders
                /\ tasks[i].st = "done" => tasks[i].result.error \in SkipErrors
          /\ sem = Concurrency - Cardinality({i \in Holders : Fetchable(FetchList[i])})

\* the two companies that cannot be fetched have their result while the
\* semaphore has no slot left
C16_Witness ==
    /\ fpc = "gather"
    /\ sem = 0
    /\ \A i \in TaskIds : ~Fetchable(FetchList[i]) =>
          tasks[i].st = "done" /\ requests[i] = 0
    /\ \E i \in TaskIds : tasks[i].result.error = "no api_url"
    /\ \E i \in TaskIds : tasks[i].result.error = "no parser for taleo"

\* fn has failed with connection errors only
OnlyConnectionErrors == \A k \in 1..Len(errors) : IsConnectionError(errors[k])

\* C17 (as stated): a wrapped call that keeps failing with connection
\* errors is retried 3 times, the k-th retry after k times the base delay,
\* before the error reaches the caller.
C17_ThreeRetries ==
    (rpc = "raised" /\ OnlyConnectionErrors) =>
        /\ Len(slept) = Retries
        /\ \A k \in 1..Len(slept) : slept[k] = k * BaseDelay

\* C17 (amended): fn is called at most 3 times in all, that is retried at
\* most twice; the k-th retry comes after a sleep of k times the base delay;
\* a call that keeps failing with connection errors has been made exactly 3
\* times, after sleeps of 1 and 2 base delays, when the third error reaches
\* the caller.
C17_Amended ==
    /\ Len(used) <= Retries
    /\ Len(slept) <= Retries - 1
    /\ \A k \in 1..Len(slept) : slept[k] = k * BaseDelay
    /\ rpc \in {"attempt", "execute"} =>
          /\ OnlyConnectionErrors
          /\ Len(errors) = attempt
          /\ Len(slept) = attempt
    /\ (rpc = "raised" /\ OnlyConnectionErrors) =>
          /\ Len(errors) = Retries
          /\ Len(used) = Retries
          /\ slept = [k \in 1..(Retries - 1) |-> k * BaseDelay]

C17_Witness ==
    /\ rpc = "raised"
    /\ OnlyConnectionErrors
    /\ Len(errors) = 3
    /\ slept = <<1, 2>>

\* messages that contain none of the signatures
OtherMessages ==
    {<<"[Errno 111] ", "Connection refused">>,
     <<"duplicate key value violates unique constraint">>}

\* fn has just raised an exception whose message has no signature
OtherErrorStep ==
    /\ rpc = "execute"
    /\ Len(errors') = Len(errors) + 1
    /\ errors'[Len(errors')] \in OtherMessages

\* C18: when fn raises an exception whose message matches no signature,
\* _retry re-raises at once: no sleep, no further call of fn, and the
\* client and the request count are left as they are; if it was the first
\* call, fn has been called exactly once.
C18_OtherErrorsNotRetried ==
    [][OtherErrorStep =>
        /\ rpc' = "raised"
        /\ slept' = slept
        /\ used' = used
        /\ attempt' = attempt
        /\ request_count' = request_count
        /\ client' = client
        /\ created' = created
        /\ errors = <<>> => Len(used') = 1 /\ slept' = <<>>]_vars

C18_Witness ==
    /\ rpc = "raised"
    /\ errors = <<<<"[Errno 111] ", "Connection refused">>>>
    /\ Len(used) = 1
    /\ slept = <<>>
    /\ request_count = 2
    /\ created = 1

\* fn has just raised a connection error that _retry answers with a retry
RetryStep ==
    /\ rpc = "execute"
    /\ rpc' = "attempt"

\* the call of get_client that opens a retry
RetryGetClientStep ==
    /\ rpc = "attempt"
    /\ attempt > 0
    /\ rpc' = "execute"

\* C19: after a connection error that is retried, _retry leaves the request
\* count at the reset threshold, so that the get_client call of the next
\* attempt drops the client in use, creates a new one that no earlier
\* attempt ran on, and restarts the request count; the attempt runs on the
\* new client.
C19_RetryOnNewClient ==
    [][/\ RetryStep =>
            /\ request_count' = MaxRequestsBeforeReset
            /\ client' = client
       /\ RetryGetClientStep =>
            /\ request_count = MaxRequestsBeforeReset
            /\ client' # client
            /\ client' # NoClient
            /\ \A k \in 1..Len(used) : used[k] # client'
            /\ created' = created + 1
            /\ request_count' = 1
            /\ used' = Append(used, client')]_vars

\* three attempts on three clients, the first of which existed before
C19_Witness ==
    /\ rpc = "execute"
    /\ attempt = 2
    /\ used = <<1, 2, 3>>
    /\ client = 3
    /\ request_count = 1

\* the run id an invocation takes over from the checkpoint file it finds
Carried(file, fresh) ==
    IF ~fresh /\ file.state = "ok" THEN file.data.run_id ELSE NoRunId

\* main() has just called run_scraper, which got past the company query
InvocationStep == inv' = inv + 1 /\ pc' # "raised"

\* run_scraper has just returned from its last line
ReturnStep == pc = "loop" /\ pc' = "returned"

\* C20 (as stated): a real invocation that takes over no run id starts
\* exactly one run; an invocation that takes over a run id starts none and,
\* when it returns, has finished that run with status completed.
C20_OneStartOneFinish ==
    [][/\ InvocationStep =>
            LET carried == Carried(ckpt, mode'.fresh) IN
                /\ (~mode'.dry_run /\ carried = NoRunId) =>
                        Len(scrape_runs') = Len(scrape_runs) + 1
                /\ carried # NoRunId =>
                        Len(scrape_runs') = Len(scrape_runs) /\ run_id' = carried
       /\ (ReturnStep /\ Carried(loaded, mode.fresh) # NoRunId /\ faults' = faults) =>
            scrape_runs'[Carried(loaded, mode.fresh)].status = "completed"]_vars

\* C20 (amended): an invocation with a non-empty selection starts exactly
\* one run if it is real and takes over no run id, and none otherwise; an
\* invocation with an empty selection starts none; nothing else adds a run.
\* A real invocation that returns from the loop finishes the run it holds,
\* with its totals and status completed, unless the update fails; a dry
\* run finishes nothing.  A real invocation that took over a run id and
\* returned has held that id throughout and added no run.
C20_Amended ==
    [][/\ InvocationStep =>
            LET carried == Carried(ckpt, mode'.fresh) IN
                /\ (pc' = "loop" /\ ~mode'.dry_run /\ carried = NoRunId) =>
                        /\ scrape_runs' = Append(scrape_runs, RunRow("running", 0, 0, 0))
                        /\ run_id' = Len(scrape_runs')
                /\ (pc' = "returned_empty" \/ mode'.dry_run \/ carried # NoRunId) =>
                        /\ scrape_runs' = scrape_runs
                        /\ run_id' = carried
       /\ ~InvocationStep => Len(scrape_runs') = Len(scrape_runs)
       /\ ReturnStep =>
            IF ~mode.dry_run /\ faults' = faults
            THEN /\ run_id # NoRunId
                 /\ scrape_runs' = [scrape_runs EXCEPT ![run_id] =
                        RunRow("completed", total_jobs, new_jobs, error_count)]
                 /\ Carried(loaded, mode.fresh) # NoRunId =>
                        run_id = Carried(loaded, mode.fresh)
            ELSE scrape_runs' = scrape_runs
       /\ ~ReturnStep => \A k \in 1..Len(scrape_runs) : scrape_runs'[k] = scrape_runs[k]]_vars

\* a run that an aborted invocation started and checkpointed has been
\* finished by the invocation that resumed it: one row, completed
C20_Witness ==
    /\ pc = "returned"
    /\ ~mode.dry_run
    /\ ~mode.fresh
    /\ loaded.state = "ok"
    /\ loaded.data.completed_ids \cap TargetIds # {}
    /\ run_id = loaded.data.run_id
    /\ Len(scrape_runs) = 1
    /\ scrape_runs[1].status = "completed"

\* the part of a string before its query and fragment
CutQueryFragment(s) ==
    LET cut == Find(s, {"?", "#"}) IN IF cut = 0 THEN s ELSE Before(s, cut)

\* two strings that differ only in query or fragment, in letter case, or in
\* the "/" ending them
SameLogicalUrl(u, v) ==
    LowerHost(rstrip(CutQueryFragment(strip(u)), "/"))
        = LowerHost(rstrip(CutQueryFragment(strip(v)), "/"))

\* scheme, host and path of a string once its query, its fragment and the
\* "/" ending it are cut; only scheme and host in lower case
SchemeHostPath(s) ==
    LET parsed == urlparse(rstrip(CutQueryFragment(strip(s)), "/")) IN
    <<LowerHost(parsed.scheme), LowerHost(parsed.netloc), parsed.path>>

\* C21 (as stated): two URLs that differ only in query or fragment, in letter
\* case, or in a trailing slash have the same identity key.
C21_SameKey ==
    (kpc = "hashed" /\ SameLogicalUrl(url, other)) => url_key = other_key

\* C21 (amended): two URLs that differ only in query or fragment, in the
\* slashes ending the path, or in the letter case of scheme and host have
\* the same identity key; two that differ in the letter case of the path
\* have different keys.
C21_Amended ==
    kpc = "hashed" =>
        /\ SchemeHostPath(url) = SchemeHostPath(other) => url_key = other_key
        /\ (SameLogicalUrl(url, other)
                /\ SchemeHostPath(url)[3] # SchemeHostPath(other)[3]) => url_key # other_key

\* the two spellings of one posting have been hashed
C21_Witness ==
    /\ kpc = "hashed"
    /\ url = UrlA2
    /\ other = UrlA
    /\ url_key = other_key

\* C22: normalize_url(normalize_url(u)) = normalize_url(u)
C22_Idempotent ==
    kpc = "renormalized" => renormalized = normalized

\* upsert_job has just been called with a record whose key row r carries,
\* and no store call of it failed
RefreshStep(r) ==
    /\ call'.turn # call.turn
    /\ call'.fault = "none"
    /\ r \in jobs
    /\ r.url_hash = hash_url(call'.job.url)

Resumed(file) ==
    LET checkpoint == load_checkpoint(file) IN
    [completed_ids |-> Get(checkpoint, "completed_ids", {}),
     run_id        |-> Get(checkpoint, "run_id", NoRunId),
     total_jobs    |-> Get(checkpoint, "total_jobs", 0),
     new_jobs      |-> Get(checkpoint, "new_jobs", 0),
     errors        |-> Get(checkpoint, "errors", 0)]

\* C24: an invocation without --fresh that finds a checkpoint file, with or
\* without --resume, starts as the resume of that file: the same targets
\* skipped, the same seeded totals, the same run id reused, the file left
\* in place.
C24_AutoResume ==
    [][(InvocationStep /\ ckpt.state # "absent" /\ ~mode'.fresh) =>
        /\ completed_ids' = Resumed(ckpt).completed_ids
        /\ total_jobs' = Resumed(ckpt).total_jobs
        /\ new_jobs' = Resumed(ckpt).new_jobs
        /\ error_count' = Resumed(ckpt).errors
        /\ Resumed(ckpt).run_id # NoRunId => run_id' = Resumed(ckpt).run_id
        /\ pc' = "loop" => remaining' = Remaining(companies', Resumed(ckpt).completed_ids)
        /\ ckpt' = ckpt]_vars

\* an invocation has resumed a checkpoint of this program: a target is
\* skipped, the totals are seeded and the run id is the checkpoint's
C24_Witness ==
    /\ pc = "loop"
    /\ idx = 1
    /\ ~mode.fresh
    /\ loaded.state = "ok"
    /\ loaded.data.completed_ids \cap TargetIds # {}
    /\ Len(remaining) < Len(companies)
    /\ run_id = loaded.data.run_id
    /\ run_id # NoRunId
    /\ error_count = loaded.data.errors
    /\ error_count > 0

\* a step of an invocation that runs with --dry-run
DryRunStep ==
    \/ inv' = inv + 1 /\ mode'.dry_run
    \/ inv' = inv /\ pc \notin Stopped /\ mode.dry_run

\* C25: a dry-run invocation writes nothing to the store: the jobs table,
\* the companies row and the scrape_runs table stay as they are.
C25_DryRunWritesNothing ==
    [][DryRunStep => UNCHANGED <<jobs, company_update, scrape_runs>>]_vars

\* a dry run has returned after reading a board with postings and a failed
\* fetch, with nothing in the jobs table
C25_Witness ==
    /\ pc = "returned"
    /\ mode.dry_run
    /\ \E t \in TargetIds : fetched[t].kind = "ok" /\ fetched[t].n > 0
    /\ \E t \in TargetIds : fetched[t].kind = "failed"
    /\ new_jobs > 0
    /\ jobs = {}

\* save_checkpoint has just written the file out
CheckpointWritten == ckpt' # ckpt /\ ckpt'.state = "ok"

\* C26: while run_scraper runs, no step after the initial load takes an id
\* out of completed_ids; a checkpoint that is written holds the set as it
\* then is, which includes the set of the checkpoint of the same run that
\* it replaces and of the one this invocation loaded.
C26_CompletedOnlyGrows ==
    [][/\ (inv' = inv /\ pc \notin Stopped /\ pc' # "crashed") =>
            completed_ids \subseteq completed_ids'
       /\ CheckpointWritten =>
            /\ ckpt'.data.completed_ids = completed_ids'
            /\ (ckpt.state = "ok" /\ ckpt.data.run_id = ckpt'.data.run_id) =>
                    ckpt.data.completed_ids \subseteq ckpt'.data.completed_ids
            /\ (loaded.state = "ok" /\ loaded.data.run_id = ckpt'.data.run_id) =>
                    loaded.data.completed_ids \subseteq ckpt'.data.completed_ids]_vars

\* a run checkpointed three times over two resumes: the checkpoint on disk
\* extends the one this invocation loaded, which an earlier invocation of
\* the same run had written
C26_Witness ==
    /\ ckpt.state = "ok"
    /\ loaded.state = "ok"
    /\ ckpt.data.run_id = loaded.data.run_id
    /\ loaded.data.completed_ids \cap TargetIds # {}
    /\ PriorIds \subseteq loaded.data.completed_ids
    /\ loaded.data.completed_ids \subseteq ckpt.data.completed_ids
    /\ loaded.data.completed_ids # ckpt.data.completed_ids

\* the loop has just put company c, whose board had records, into
\* completed_ids
CompletedStep(c) ==
    /\ inv' = inv
    /\ c \notin completed_ids
    /\ c \in completed_ids'
    /\ fetched'[c].kind = "ok"
    /\ fetched'[c].n > 0

\* db.upsert_job has been called for every record of company c and
\* db.update_company is called in this step
AllAttempted(c) ==
    /\ pc = "update"
    /\ cur.company_id = c
    /\ j = Len(cur.jobs)
    /\ \/ company_update' = CompanyUpdate(c, Len(cur.jobs), clock)
       \/ faults' = faults + 1

\* the companies with records that this invocation went through and that the
\* checkpoint file lists
ListedWithRecords(file, read) ==
    {c \in TargetIds : /\ file.state = "ok"
                       /\ c \in file.data.completed_ids
                       /\ read[c].kind = "ok"
                       /\ read[c].n > 0}

\* C27: a target with records gets into completed_ids only after upsert_job
\* has been called for each of its records and update_company for the
\* target; a checkpoint lists no target of which a record is not stored.
C27_CompletedAfterAllApplied ==
    [][/\ \A c \in TargetIds : CompletedStep(c) => AllAttempted(c)
       /\ ListedWithRecords(ckpt', fetched') # {} =>
            \A k \in Keys : \E r \in jobs' : r.url_hash = k]_vars

\* C28: when the process is terminated while a completed checkpoint is on
\* disk, what the next resume loads is a dict that was passed in full to
\* save_checkpoint, the one on disk before or the one being written, and
\* not the empty dict.
C28_TerminationKeepsFlush ==
    [][(pc' = "crashed" /\ pc \in Running /\ ckpt.state = "ok") =>
        /\ load_checkpoint(ckpt') # EmptyDict
        /\ \/ load_checkpoint(ckpt') = ckpt.data
           \/ load_checkpoint(ckpt') = Snapshot.data
           \/ load_checkpoint(ckpt') =
                CheckpointData(completed_ids \cup {cur.company_id}, run_id, total_jobs,
                               new_jobs, error_count)
           \/ load_checkpoint(ckpt') =
                FatalCheckpoint(completed_ids, cur.company_id, run_id, total_jobs,
                                new_jobs, error_count + 1)]_vars

\* the records-seen counter the invocation started from
SeedTotal == IF ~mode.fresh /\ loaded.state = "ok" THEN loaded.data.total_jobs ELSE 0

\* the targets a checkpoint lists that this invocation's loop went through
ListedHere(file) == {c \in file.data.completed_ids \cap TargetIds : fetched[c].kind # "none"}

\* C29: in every checkpoint written, the records-seen counter is the sum of
\* the record counts of the applied targets it lists and the error counter is
\* the number of errored targets it lists (from what the invocation loaded
\* onwards).
C29_CountersAgreeWithSet ==
    [][CheckpointWritten =>
        /\ ckpt'.data.total_jobs = SeedTotal + SeenOver(ListedHere(ckpt'))
        /\ ckpt'.data.errors = SeedErrors
              + Cardinality({c \in ListedHere(ckpt') : fetched[c].kind \in {"failed", "skipped"}})]_vars

\* C30: a dry-run invocation leaves the checkpoint file as it found it.
C30_DryRunKeepsCheckpoint ==
    [][DryRunStep => ckpt' = ckpt]_vars

====
